---- MODULE Spec2Model ----
(***************************************************************************)
(* State-machine model of SLAMProcessor (src/modules/slam.py): the         *)
(* lifecycle calls start()/stop(), the background loop _update_slam with   *)
(* _process_frame and its helpers, and the snapshot accessor get_data().   *)
(*                                                                         *)
(* Units.  Positions and map points are kept in hundredths of a distance   *)
(* unit (the code's scale constant 0.01 is then 1 per pixel and the grid   *)
(* resolution 0.1 is 10), angles in whole degrees.  Floating-point         *)
(* rounding is not modelled.                                               *)
(*                                                                         *)
(* Python's None is the integer 0 for the frame/keypoint/descriptor slots  *)
(* (frame ids start at 1) and the record NoH for a homography.             *)
(***************************************************************************)
EXTENDS Integers, Sequences, FiniteSets, TLC

---------------------------------------------------------------------------
(* Bounds of the model *)

\* number of background-thread slots the model follows
MaxThreads == 2
\* number of frames with keypoints the frame source hands out in one behaviour
\* (featureless frames are not counted: they never lead to a pose update)
MaxCycles == 3
\* side of the occupancy grid (100 in the code, scaled down)
grid_size == 5
\* cap of the trajectory (100 in the code, scaled down)
TrajCap == 2
\* cap of the map-point sequence (1000 in the code, scaled down)
MapCap == 35

---------------------------------------------------------------------------
(* Program constants *)

\* len(good_matches) >= 8
MinMatches == 8
\* matches[:min(30, len(matches))]
TopK == 30
\* grid_resolution = 0.1, in hundredths
grid_resolution == 10
\* a scale constant of 0.1 instead of 0.01
scaleTenth == 10 * 1
\* scale = 0.01, in hundredths per pixel
scale == 1
\* frame-centre offsets of _update_map
CenterX == 320
CenterY == 240
\* an occupied value equal to the threshold
OccupiedAtThreshold == 50 * 1
\* the value of an occupied cell and the threshold of the free-space rule
Occupied == 100
OccupiedThreshold == 50
Free == 0
\* range(-2, 3)
NeighbourRadius == 2

\* lock owners: nobody, a background thread 1..MaxThreads, or a get_data() caller
NoOwner == 0
Reader == -1
\* Python's None in an integer slot
None == 0

Threads == 1 .. MaxThreads

grid_center == grid_size \div 2
Cells == 0 .. (grid_size - 1)

---------------------------------------------------------------------------
(* Inputs from the collaborators *)

\* Frames the camera may return: the id stands for the image; the number of
\* keypoints ORB finds in it is a function of the image.
Featureless == 1
Textured == {2, 3}
FrameIds == {Featureless} \cup Textured
NKeypoints(f) == CASE f = 2 -> 31 [] f = 3 -> 8 [] OTHER -> 0
\* detectAndCompute returns descriptors None for an image without keypoints
Descriptors(f) == IF NKeypoints(f) = 0 THEN None ELSE f
\* pixel position of keypoint k of frame f
KpX(f, k) == CenterX + 10 * k
KpY(f, k) == CenterY - f * k

\* sizes of the match list BFMatcher.match (with crossCheck) may return for
\* n stored and m current keypoints: every keypoint matched, or only 7
MatchCounts(n, m) == {7, IF n < m THEN n ELSE m}

\* Homographies findHomography may return: the entries the code reads.
NoH == [h00 |-> 0, h10 |-> 0, tx |-> 0, ty |-> 0]
Identity == [h00 |-> 1, h10 |-> 0, tx |-> 0, ty |-> 0]
Homographies ==
    { Identity,
      [h00 |-> 1, h10 |-> 0, tx |-> 10, ty |-> 0],
      [h00 |-> 0, h10 |-> 1, tx |-> -30, ty |-> 10] }

\* math.atan2(y, x) * 180.0 / math.pi on the axis directions
Atan2Deg(y, x) ==
    CASE y = 0 /\ x > 0 -> 0
      [] y > 0 /\ x = 0 -> 90
      [] y = 0 /\ x < 0 -> 180
      [] y < 0 /\ x = 0 -> -90
      [] OTHER -> 0

\* roll/pitch the inertial source may return
ImuReadings == { [roll |-> 0, pitch |-> 0], [roll |-> 5, pitch |-> -3] }
NoImu == [roll |-> 0, pitch |-> 0]

---------------------------------------------------------------------------
VARIABLES
    is_running,       \* self.is_running
    lock,             \* owner of self.lock
    position,         \* self.position
    orientation,      \* self.orientation
    map_points,       \* self.map_points
    trajectory,       \* self.trajectory
    occupancy_grid,   \* self.occupancy_grid[y][x]
    last_frame,       \* self.last_frame
    last_keypoints,   \* self.last_keypoints (the frame whose keypoints are stored)
    last_descriptors, \* self.last_descriptors
    pc,               \* per thread: where the background thread stands
    frame,            \* per thread: local `frame` / `gray`
    good_matches,     \* per thread: len(good_matches)
    H,                \* per thread: local `H`
    imu_orientation,  \* per thread: local `orientation`
    cycles,           \* history: frames with keypoints handed out so far
    cyc,              \* history, per thread: number of the frame of the cycle in
                      \* flight (0: no cycle, or a featureless frame)
    written,          \* history, per thread: fields the cycle in flight has assigned
    pre,              \* history, per thread: the core state when the cycle in
                      \* flight pulled its frame
    posBy,            \* history: cycle that last assigned position
    yawBy,            \* history: cycle that last assigned yaw
    snap,             \* value being returned by a get_data() call in progress
    idem,             \* history: parity of the calls of start() while running
                      \* and of stop() while idle
    slots,            \* environment: thread slots the behaviour may use
    scene,            \* environment: frames the camera can deliver
    call,             \* a get_position(), get_orientation() or
                      \* get_map_visualization() call in progress
    held,             \* the value of an earlier get_data() call that its
                      \* caller has kept, with the objects it shares
    robot_lock,       \* owner of RobotController.lock
    motor_speeds,     \* RobotController.motor_speeds
    motor_directions, \* RobotController.motor_directions
    motors,           \* the speed each motor was last driven at (0: stopped)
    rpc,              \* per caller: where its controller call stands
    rarg,             \* per caller: arguments of its set_differential_drive call
    pan_angle,        \* RobotController.pan_angle
    tilt_angle        \* RobotController.tilt_angle

core == <<position, orientation, map_points, trajectory, occupancy_grid>>
ref == <<last_frame, last_keypoints, last_descriptors>>
locals == <<frame, good_matches, H, imu_orientation>>
hist == <<cycles, cyc, written, pre, posBy, yawBy>>
env == <<slots, scene>>
client == <<call, held>>
gimbal == <<pan_angle, tilt_angle>>
robot == <<robot_lock, motor_speeds, motor_directions, motors, rpc, rarg,
           gimbal>>
vars == <<is_running, lock, core, ref, pc, locals, hist, snap, idem, env, client, robot>>

NoSnap == [taken |-> FALSE]
NoCall == [op |-> "none"]
NoHeld == [kept |-> FALSE]

\* the core state as one value
CoreState ==
    [position |-> position,
     orientation |-> orientation,
     map_points |-> map_points,
     trajectory |-> trajectory,
     occupancy_grid |-> occupancy_grid]

\* the core state __init__ builds
NewCore ==
    [position |-> [x |-> 0, y |-> 0, z |-> 0],
     orientation |-> [roll |-> 0, pitch |-> 0, yaw |-> 0],
     map_points |-> << >>,
     trajectory |-> << >>,
     occupancy_grid |-> [y \in Cells |-> [x \in Cells |-> 0]]]

\* the contexts that may call the robot controller at the same time
MaxCallers == 2
Callers == 1..MaxCallers

\* range(4): the four motors, left 0 and 2, right 1 and 3
Motors == 0..3

\* no set_differential_drive call in progress
NoArg == [x |-> 0, y |-> 0, max_speed |-> 0, turning_factor |-> 0]

\* the servo angles __init__ and center_camera set
PanCentre == 80
TiltCentre == 40

\* the controller RobotController.__init__ builds
RobotInit ==
    /\ robot_lock = NoOwner
    /\ motor_speeds = [m \in Motors |-> 0]
    /\ motor_directions = [m \in Motors |-> "forward"]
    /\ motors = [m \in Motors |-> 0]
    /\ rpc = [c \in Callers |-> "idle"]
    /\ rarg = [c \in Callers |-> NoArg]
    /\ pan_angle = PanCentre
    /\ tilt_angle = TiltCentre

Init ==
    /\ is_running = FALSE
    /\ lock = NoOwner
    /\ position = NewCore.position
    /\ orientation = NewCore.orientation
    /\ map_points = NewCore.map_points
    /\ trajectory = NewCore.trajectory
    /\ occupancy_grid = NewCore.occupancy_grid
    /\ last_frame = None
    /\ last_keypoints = None
    /\ last_descriptors = None
    /\ pc = [t \in Threads |-> "none"]
    /\ frame = [t \in Threads |-> None]
    /\ good_matches = [t \in Threads |-> 0]
    /\ H = [t \in Threads |-> NoH]
    /\ imu_orientation = [t \in Threads |-> NoImu]
    /\ cycles = 0
    /\ cyc = [t \in Threads |-> 0]
    /\ written = [t \in Threads |-> {}]
    /\ pre = [t \in Threads |-> NewCore]
    /\ posBy = 0
    /\ yawBy = 0
    /\ snap = NoSnap
    /\ idem = 0
    /\ slots = 1
    /\ call = NoCall
    /\ held = NoHeld
    /\ RobotInit
    /\ scene = FrameIds

---------------------------------------------------------------------------
(* Helpers *)

Min(a, b) == IF a < b THEN a ELSE b

\* s[-n:] for a sequence longer than n
LastN(s, n) == SubSeq(s, Len(s) - n + 1, Len(s))

\* int(): truncation toward zero of n / d, for d > 0
TruncDiv(n, d) == IF n >= 0 THEN n \div d ELSE -((-n) \div d)

\* the grid index rounded down instead of toward zero
GridIndexFloor(p) == (grid_center * grid_resolution + p) \div grid_resolution

\* the grid index clamped into the grid
GridIndexClamped(p) ==
    LET i == TruncDiv(grid_center * grid_resolution + p, grid_resolution)
    IN  IF i < 0 THEN 0 ELSE IF i >= grid_size THEN grid_size - 1 ELSE i

\* int(self.grid_center[i] + p / self.grid_resolution), p in hundredths
GridIndex(p) == TruncDiv(grid_center * grid_resolution + p, grid_resolution)

InGrid(gx, gy) == gx \in Cells /\ gy \in Cells

\* a thread leaves its cycle: its locals and the cycle's history are dropped
EndCycle(t, to) ==
    /\ pc' = [pc EXCEPT ![t] = to]
    /\ frame' = [frame EXCEPT ![t] = None]
    /\ good_matches' = [good_matches EXCEPT ![t] = 0]
    /\ H' = [H EXCEPT ![t] = NoH]
    /\ imu_orientation' = [imu_orientation EXCEPT ![t] = NoImu]
    /\ cyc' = [cyc EXCEPT ![t] = 0]
    /\ written' = [written EXCEPT ![t] = {}]
    /\ pre' = [pre EXCEPT ![t] = NewCore]

Goto(t, to) == pc' = [pc EXCEPT ![t] = to]

Wrote(t, fields) == written' = [written EXCEPT ![t] = @ \cup fields]

---------------------------------------------------------------------------
(* Lifecycle: start() and stop() *)

FreeSlots == {t \in 1 .. slots : pc[t] = "none"}

\* start() without its `if self.is_running: return`
StartUnguarded ==
    /\ idem' = IF is_running THEN 1 - idem ELSE idem
    /\ FreeSlots # {}
    /\ is_running' = TRUE
    /\ LET t == CHOOSE u \in FreeSlots : \A v \in FreeSlots : u <= v
       IN  Goto(t, "check")
    /\ UNCHANGED <<lock, core, ref, locals, hist, snap, env, client, robot>>

\* start() that also re-creates the trajectory
StartResets ==
    /\ IF is_running
       THEN /\ idem' = 1 - idem
            /\ UNCHANGED <<is_running, pc, trajectory>>
       ELSE /\ FreeSlots # {}
            /\ is_running' = TRUE
            /\ trajectory' = << >>
            /\ LET t == CHOOSE u \in FreeSlots : \A v \in FreeSlots : u <= v
               IN  Goto(t, "check")
            /\ UNCHANGED idem
    /\ UNCHANGED <<lock, position, orientation, map_points, occupancy_grid,
                   ref, locals, hist, snap, env, client, robot>>

\* start(): return at once when running, else set the flag and start a thread
Start ==
    /\ IF is_running
       THEN /\ idem' = 1 - idem
            /\ UNCHANGED <<is_running, pc>>
       ELSE /\ FreeSlots # {}
            /\ is_running' = TRUE
            /\ LET t == CHOOSE u \in FreeSlots : \A v \in FreeSlots : u <= v
               IN  Goto(t, "check")
            /\ UNCHANGED idem
    /\ UNCHANGED <<lock, core, ref, locals, hist, snap, env, client, robot>>

\* stop(): clear the flag; the thread is neither joined nor signalled
Stop ==
    /\ idem' = IF is_running THEN idem ELSE 1 - idem
    /\ is_running' = FALSE
    /\ UNCHANGED <<lock, core, ref, pc, locals, hist, snap, env, client, robot>>

---------------------------------------------------------------------------
(* The background loop _update_slam *)

\* the loop test as `while True:`
LoopCheckAlways(t) ==
    /\ pc[t] = "check"
    /\ Goto(t, "fetch")
    /\ UNCHANGED <<is_running, lock, core, ref, locals, hist, snap, idem, env, client, robot>>

\* the loop test with its condition inverted
LoopCheckInverted(t) ==
    /\ pc[t] = "check"
    /\ Goto(t, IF is_running THEN "none" ELSE "fetch")
    /\ UNCHANGED <<is_running, lock, core, ref, locals, hist, snap, idem, env, client, robot>>

\* while self.is_running:
LoopCheck(t) ==
    /\ pc[t] = "check"
    /\ Goto(t, IF is_running THEN "fetch" ELSE "none")
    /\ UNCHANGED <<is_running, lock, core, ref, locals, hist, snap, idem, env, client, robot>>

\* frame = self.camera.get_frame(), and the `if frame is not None`
GetFrame(t) ==
    /\ pc[t] = "fetch"
    /\ \/ /\ Goto(t, "sleep")
          /\ UNCHANGED <<frame, cycles, cyc, pre>>
       \/ /\ Goto(t, "backoff")
          /\ UNCHANGED <<frame, cycles, cyc, pre>>
       \/ /\ pre' = [pre EXCEPT ![t] = CoreState]
          /\ \E f \in scene :
                /\ frame' = [frame EXCEPT ![t] = f]
                /\ IF NKeypoints(f) > 0
                   THEN /\ cycles < MaxCycles
                        /\ cycles' = cycles + 1
                        /\ cyc' = [cyc EXCEPT ![t] = cycles + 1]
                   ELSE UNCHANGED <<cycles, cyc>>
          /\ Goto(t, "detect")
    /\ UNCHANGED <<is_running, lock, core, ref, good_matches, H, imu_orientation,
                   written, posBy, yawBy, snap, idem, env, client, robot>>

\* the normal sleep followed by a return from the loop
SleepExits(t) ==
    /\ pc[t] = "sleep"
    /\ Goto(t, "none")
    /\ UNCHANGED <<is_running, lock, core, ref, locals, hist, snap, idem, env, client, robot>>

\* time.sleep(0.2)
Sleep(t) ==
    /\ pc[t] = "sleep"
    /\ Goto(t, "check")
    /\ UNCHANGED <<is_running, lock, core, ref, locals, hist, snap, idem, env, client, robot>>

\* the handler placed around the loop instead of inside it: an error ends
\* the thread
BackoffExits(t) ==
    /\ pc[t] = "backoff"
    /\ Goto(t, "none")
    /\ UNCHANGED <<is_running, lock, core, ref, locals, hist, snap, idem, env, client, robot>>

\* except Exception: log and time.sleep(0.5)
Backoff(t) ==
    /\ pc[t] = "backoff"
    /\ Goto(t, "check")
    /\ UNCHANGED <<is_running, lock, core, ref, locals, hist, snap, idem, env, client, robot>>

---------------------------------------------------------------------------
(* _process_frame: feature tracker *)

\* cvtColor + detectAndCompute, then the first-frame test of line 115
Detect(t) ==
    /\ pc[t] = "detect"
    /\ \/ /\ EndCycle(t, "backoff")
       \/ /\ Goto(t, IF last_frame = None \/ last_keypoints = None
                        \/ last_descriptors = None
                     THEN "boot_f" ELSE "match")
          /\ UNCHANGED <<locals, cyc, written, pre>>
    /\ UNCHANGED <<is_running, lock, core, ref, cycles, posBy, yawBy, snap, idem, env, client, robot>>

\* first frame: self.last_frame = gray
BootFrame(t) ==
    /\ pc[t] = "boot_f"
    /\ last_frame' = frame[t]
    /\ Goto(t, "boot_k")
    /\ UNCHANGED <<is_running, lock, core, last_keypoints, last_descriptors,
                   locals, hist, snap, idem, env, client, robot>>

\* first frame: self.last_keypoints = keypoints
BootKeypoints(t) ==
    /\ pc[t] = "boot_k"
    /\ last_keypoints' = frame[t]
    /\ Goto(t, "boot_d")
    /\ UNCHANGED <<is_running, lock, core, last_frame, last_descriptors,
                   locals, hist, snap, idem, env, client, robot>>

\* the first-frame branch without its `return`: execution falls through to
\* the matching stage
BootDescriptorsNoReturn(t) ==
    /\ pc[t] = "boot_d"
    /\ last_descriptors' = Descriptors(frame[t])
    /\ Goto(t, "match")
    /\ UNCHANGED <<is_running, lock, core, last_frame, last_keypoints,
                   locals, hist, snap, idem, env, client, robot>>

\* first frame: self.last_descriptors = descriptors; return
BootDescriptors(t) ==
    /\ pc[t] = "boot_d"
    /\ last_descriptors' = Descriptors(frame[t])
    /\ EndCycle(t, "sleep")
    /\ UNCHANGED <<is_running, lock, core, last_frame, last_keypoints,
                   cycles, posBy, yawBy, snap, idem, env, client, robot>>

\* the condition of line 122
CanMatch(t) ==
    /\ NKeypoints(frame[t]) > 0
    /\ NKeypoints(last_keypoints) > 0
    /\ Descriptors(frame[t]) # None
    /\ last_descriptors # None

\* lines 122-139: match, sort, keep the best TopK, estimate the homography
Match(t) ==
    /\ pc[t] = "match"
    /\ \/ /\ ~CanMatch(t)
          /\ Goto(t, "imu")
          /\ UNCHANGED <<locals, cyc, written, pre>>
       \/ /\ CanMatch(t)
          /\ \E m \in MatchCounts(NKeypoints(last_keypoints), NKeypoints(frame[t])) :
                /\ good_matches' = [good_matches EXCEPT ![t] = Min(TopK, m)]
                /\ IF Min(TopK, m) >= MinMatches
                   THEN \/ \E h \in Homographies :
                              /\ H' = [H EXCEPT ![t] = h]
                              /\ Goto(t, "pose_acq")
                        \/ /\ H' = [H EXCEPT ![t] = NoH]
                           /\ Goto(t, "imu")
                   ELSE /\ H' = [H EXCEPT ![t] = NoH]
                        /\ Goto(t, "imu")
          /\ UNCHANGED <<frame, imu_orientation, cyc, written, pre>>
       \/ /\ CanMatch(t)
          /\ EndCycle(t, "backoff")
    /\ UNCHANGED <<is_running, lock, core, ref, cycles, posBy, yawBy, snap, idem, env, client, robot>>

\* `with self.lock:` of thread t, entered from `at`
Acquire(t, at, to) ==
    /\ pc[t] = at
    /\ lock = NoOwner
    /\ lock' = t
    /\ Goto(t, to)
    /\ UNCHANGED <<is_running, core, ref, locals, hist, snap, idem, env, client, robot>>

---------------------------------------------------------------------------
(* _update_position_from_homography *)

PoseAcquire(t) == Acquire(t, "pose_acq", "pose_upd")

\* the locked block without the yaw assignment
PoseUpdatePositionOnly(t) ==
    /\ pc[t] = "pose_upd"
    /\ position' = [position EXCEPT !.x = @ + H[t].tx * scale,
                                    !.y = @ + H[t].ty * scale]
    /\ posBy' = cyc[t]
    /\ Wrote(t, {"pos"})
    /\ lock' = NoOwner
    /\ Goto(t, "map_acq")
    /\ UNCHANGED <<is_running, orientation, map_points, trajectory, occupancy_grid,
                   ref, locals, cycles, cyc, pre, yawBy, snap, idem, env, client, robot>>

\* the locked block with yaw accumulated like position
PoseUpdateYawIntegrates(t) ==
    /\ pc[t] = "pose_upd"
    /\ position' = [position EXCEPT !.x = @ + H[t].tx * scale,
                                    !.y = @ + H[t].ty * scale]
    /\ orientation' = [orientation EXCEPT !.yaw = @ + Atan2Deg(H[t].h10, H[t].h00)]
    /\ posBy' = cyc[t]
    /\ yawBy' = cyc[t]
    /\ Wrote(t, {"pos", "yaw"})
    /\ lock' = NoOwner
    /\ Goto(t, "map_acq")
    /\ UNCHANGED <<is_running, map_points, trajectory, occupancy_grid, ref,
                   locals, cycles, cyc, pre, snap, idem, env, client, robot>>

\* position += translation * scale; yaw = atan2(H[1,0], H[0,0]) in degrees;
\* the lock is released at the end of the block
PoseUpdate(t) ==
    /\ pc[t] = "pose_upd"
    /\ position' = [position EXCEPT !.x = @ + H[t].tx * scale,
                                    !.y = @ + H[t].ty * scale]
    /\ orientation' = [orientation EXCEPT !.yaw = Atan2Deg(H[t].h10, H[t].h00)]
    /\ posBy' = cyc[t]
    /\ yawBy' = cyc[t]
    /\ Wrote(t, {"pos", "yaw"})
    /\ lock' = NoOwner
    /\ Goto(t, "map_acq")
    /\ UNCHANGED <<is_running, map_points, trajectory, occupancy_grid, ref,
                   locals, cycles, cyc, pre, snap, idem, env, client, robot>>

---------------------------------------------------------------------------
(* _update_map and _update_occupancy_grid *)

\* the map point without the frame-centre offset
MapPointNoOffset(pos, f, k) ==
    [x |-> pos.x + KpX(f, k) * scale,
     y |-> pos.y + KpY(f, k) * scale,
     z |-> 0]

\* the map point of keypoint k of frame f, seen from position pos
MapPoint(pos, f, k) ==
    [x |-> pos.x + (KpX(f, k) - CenterX) * scale,
     y |-> pos.y + (KpY(f, k) - CenterY) * scale,
     z |-> 0]

\* append without the length limit
AppendUncapped(mp, p) == Append(mp, p)

\* append, then drop the newest entries when the cap is exceeded
AppendKeepOldest(mp, p) ==
    LET longer == Append(mp, p)
    IN  IF Len(longer) > MapCap THEN SubSeq(longer, 1, MapCap) ELSE longer

\* append, then keep the last MapCap entries when the cap is exceeded
AppendCapped(mp, p) ==
    LET longer == Append(mp, p)
    IN  IF Len(longer) > MapCap THEN LastN(longer, MapCap) ELSE longer

\* the loop `for m in matches` over matches i..n of frame f
RECURSIVE AppendMapPoints(_, _, _, _, _)
AppendMapPoints(mp, pos, f, i, n) ==
    IF i > n THEN mp
    ELSE AppendMapPoints(AppendCapped(mp, MapPoint(pos, f, i)), pos, f, i + 1, n)

\* the free-space rule without its `< 50` test
MarkFreeAlways(v) == Free

\* the free-space rule for one neighbour cell
MarkFree(v) == IF v < OccupiedThreshold THEN Free ELSE v

\* _update_occupancy_grid with the array indexed [x, y] instead of [y, x]
UpdateOccupancyGridTransposed(g, pos) ==
    LET gx == GridIndex(pos.x)
        gy == GridIndex(pos.y)
    IN  IF InGrid(gx, gy)
        THEN [x \in Cells |-> [y \in Cells |->
                IF x = gx /\ y = gy THEN Occupied
                ELSE IF x - gx \in -NeighbourRadius .. NeighbourRadius
                        /\ y - gy \in -NeighbourRadius .. NeighbourRadius
                     THEN MarkFree(g[x][y])
                     ELSE g[x][y]]]
        ELSE g

\* _update_occupancy_grid on grid g for position pos
UpdateOccupancyGrid(g, pos) ==
    LET gx == GridIndex(pos.x)
        gy == GridIndex(pos.y)
    IN  IF InGrid(gx, gy)
        THEN [y \in Cells |-> [x \in Cells |->
                IF x = gx /\ y = gy THEN Occupied
                ELSE IF x - gx \in -NeighbourRadius .. NeighbourRadius
                        /\ y - gy \in -NeighbourRadius .. NeighbourRadius
                     THEN MarkFree(g[y][x])
                     ELSE g[y][x]]]
        ELSE g

MapAcquire(t) == Acquire(t, "map_acq", "map_upd")

\* the loop over the matches, under the lock
MapAppend(t) ==
    /\ pc[t] = "map_upd"
    /\ map_points' = AppendMapPoints(map_points, position, frame[t], 1, good_matches[t])
    /\ Wrote(t, {"map"})
    /\ Goto(t, "grid_upd")
    /\ UNCHANGED <<is_running, lock, position, orientation, trajectory,
                   occupancy_grid, ref, locals, cycles, cyc, pre, posBy, yawBy, snap, idem, env, client, robot>>

\* the grid update with the inertial-source calls placed inside its `with`
\* block: the lock is still held when they are made
GridUpdateKeepsLock(t) ==
    /\ pc[t] = "grid_upd"
    /\ occupancy_grid' = UpdateOccupancyGrid(occupancy_grid, position)
    /\ Wrote(t, IF InGrid(GridIndex(position.x), GridIndex(position.y))
                THEN {"grid"} ELSE {})
    /\ Goto(t, "imu")
    /\ UNCHANGED <<is_running, lock, position, orientation, map_points, trajectory,
                   ref, locals, cycles, cyc, pre, posBy, yawBy, snap, idem, env, client, robot>>

\* self._update_occupancy_grid(), still under the lock, then the release
GridUpdate(t) ==
    /\ pc[t] = "grid_upd"
    /\ occupancy_grid' = UpdateOccupancyGrid(occupancy_grid, position)
    /\ Wrote(t, IF InGrid(GridIndex(position.x), GridIndex(position.y))
                THEN {"grid"} ELSE {})
    /\ lock' = NoOwner
    /\ Goto(t, "imu")
    /\ UNCHANGED <<is_running, position, orientation, map_points, trajectory,
                   ref, locals, cycles, cyc, pre, posBy, yawBy, snap, idem, env, client, robot>>

---------------------------------------------------------------------------
(* _process_frame: sensor fusion, reference frame, trajectory *)

\* imu_data = self.imu.get_data(); orientation = self.imu.get_orientation()
ImuRead(t) ==
    /\ pc[t] = "imu"
    /\ \/ /\ EndCycle(t, "backoff")
       \/ /\ \E r \in ImuReadings :
                imu_orientation' = [imu_orientation EXCEPT ![t] = r]
          /\ Goto(t, "fuse_acq")
          /\ UNCHANGED <<frame, good_matches, H, cyc, written, pre>>
    /\ UNCHANGED <<is_running, lock, core, ref, cycles, posBy, yawBy, snap, idem, env, client, robot>>

FuseAcquire(t) == Acquire(t, "fuse_acq", "fuse_upd")

\* fusion that keeps the larger of the stored and the new roll
FuseUpdateKeepsMax(t) ==
    /\ pc[t] = "fuse_upd"
    /\ orientation' = [orientation EXCEPT
                          !.roll = IF @ > imu_orientation[t].roll
                                   THEN @ ELSE imu_orientation[t].roll,
                          !.pitch = imu_orientation[t].pitch]
    /\ Wrote(t, {"rp"})
    /\ lock' = NoOwner
    /\ Goto(t, "roll_f")
    /\ UNCHANGED <<is_running, position, map_points, trajectory, occupancy_grid,
                   ref, locals, cycles, cyc, pre, posBy, yawBy, snap, idem, env, client, robot>>

\* FuseUpdate with the roll/pitch assignment made only by cycles that have
\* updated the pose
FuseUpdateOnPoseOnly(t) ==
    /\ pc[t] = "fuse_upd"
    /\ orientation' = IF "pos" \in written[t]
                      THEN [orientation EXCEPT !.roll = imu_orientation[t].roll,
                                               !.pitch = imu_orientation[t].pitch]
                      ELSE orientation
    /\ Wrote(t, {"rp"})
    /\ lock' = NoOwner
    /\ Goto(t, "roll_f")
    /\ UNCHANGED <<is_running, position, map_points, trajectory, occupancy_grid,
                   ref, locals, cycles, cyc, pre, posBy, yawBy, snap, idem, env, client, robot>>

\* roll and pitch are copied from the inertial reading; yaw is left alone
FuseUpdate(t) ==
    /\ pc[t] = "fuse_upd"
    /\ orientation' = [orientation EXCEPT !.roll = imu_orientation[t].roll,
                                          !.pitch = imu_orientation[t].pitch]
    /\ Wrote(t, {"rp"})
    /\ lock' = NoOwner
    /\ Goto(t, "roll_f")
    /\ UNCHANGED <<is_running, position, map_points, trajectory, occupancy_grid,
                   ref, locals, cycles, cyc, pre, posBy, yawBy, snap, idem, env, client, robot>>

\* the store placed inside the `if H is not None` branch
RollFrameOnPoseOnly(t) ==
    /\ pc[t] = "roll_f"
    /\ last_frame' = IF H[t] = NoH THEN last_frame ELSE frame[t]
    /\ Goto(t, "roll_k")
    /\ UNCHANGED <<is_running, lock, core, last_keypoints, last_descriptors,
                   locals, hist, snap, idem, env, client, robot>>

\* self.last_frame = gray
RollFrame(t) ==
    /\ pc[t] = "roll_f"
    /\ last_frame' = frame[t]
    /\ Goto(t, "roll_k")
    /\ UNCHANGED <<is_running, lock, core, last_keypoints, last_descriptors,
                   locals, hist, snap, idem, env, client, robot>>

\* self.last_keypoints = keypoints
RollKeypoints(t) ==
    /\ pc[t] = "roll_k"
    /\ last_keypoints' = frame[t]
    /\ Goto(t, "roll_d")
    /\ UNCHANGED <<is_running, lock, core, last_frame, last_descriptors,
                   locals, hist, snap, idem, env, client, robot>>

\* self.last_descriptors = descriptors
RollDescriptors(t) ==
    /\ pc[t] = "roll_d"
    /\ last_descriptors' = Descriptors(frame[t])
    /\ Wrote(t, {"ref"})
    /\ Goto(t, "traj_acq")
    /\ UNCHANGED <<is_running, lock, core, last_frame, last_keypoints,
                   locals, cycles, cyc, pre, posBy, yawBy, snap, idem, env, client, robot>>

TrajAcquire(t) == Acquire(t, "traj_acq", "traj_app")

\* the trajectory append made only in cycles that updated the pose
TrajAppendOnPoseOnly(t) ==
    /\ pc[t] = "traj_app"
    /\ trajectory' = IF "pos" \in written[t]
                     THEN Append(trajectory, position) ELSE trajectory
    /\ Wrote(t, {"traj"})
    /\ Goto(t, "traj_trim")
    /\ UNCHANGED <<is_running, lock, position, orientation, map_points,
                   occupancy_grid, ref, locals, cycles, cyc, pre, posBy, yawBy, snap, idem, env, client, robot>>

\* self.trajectory.append(self.position.copy())
TrajAppend(t) ==
    /\ pc[t] = "traj_app"
    /\ trajectory' = Append(trajectory, position)
    /\ Wrote(t, {"traj"})
    /\ Goto(t, "traj_trim")
    /\ UNCHANGED <<is_running, lock, position, orientation, map_points,
                   occupancy_grid, ref, locals, cycles, cyc, pre, posBy, yawBy, snap, idem, env, client, robot>>

\* if len(self.trajectory) > 100: keep the last 100; release; the cycle is over
TrajTrim(t) ==
    /\ pc[t] = "traj_trim"
    /\ trajectory' = IF Len(trajectory) > TrajCap
                     THEN LastN(trajectory, TrajCap) ELSE trajectory
    /\ lock' = NoOwner
    /\ EndCycle(t, "sleep")
    /\ UNCHANGED <<is_running, position, orientation, map_points, occupancy_grid,
                   ref, cycles, posBy, yawBy, snap, idem, env, client, robot>>

---------------------------------------------------------------------------
(* get_data(): the snapshot accessor *)

\* the dict built under the lock, with the history the claims speak about
Snapshot ==
    [taken |-> TRUE,
     position |-> position,
     orientation |-> orientation,
     trajectory |-> trajectory,
     map_size |-> Len(map_points),
     occupancy_grid |-> occupancy_grid,
     written |-> written,
     posBy |-> posBy,
     yawBy |-> yawBy]

\* `with self.lock:` and the copies
GetDataCopy ==
    /\ lock = NoOwner
    /\ snap = NoSnap
    /\ lock' = Reader
    /\ snap' = Snapshot
    /\ UNCHANGED <<is_running, core, ref, pc, locals, hist, idem, env, client, robot>>

\* the lock is released and the dict handed to the caller
GetDataReturn ==
    /\ lock = Reader
    /\ snap # NoSnap
    /\ lock' = NoOwner
    /\ snap' = NoSnap
    /\ UNCHANGED <<is_running, core, ref, pc, locals, hist, idem, env, client, robot>>

---------------------------------------------------------------------------
(* get_position() and get_orientation() *)

\* `with self.lock: return self.position.copy()`: the copy, under the lock
GetPositionCopy ==
    /\ lock = NoOwner
    /\ call = NoCall
    /\ lock' = Reader
    /\ call' = [op |-> "get_position", result |-> position]
    /\ UNCHANGED <<is_running, core, ref, pc, locals, hist, snap, idem, env, held, robot>>

\* `with self.lock: return self.orientation.copy()`: the copy, under the lock
GetOrientationCopy ==
    /\ lock = NoOwner
    /\ call = NoCall
    /\ lock' = Reader
    /\ call' = [op |-> "get_orientation", result |-> orientation]
    /\ UNCHANGED <<is_running, core, ref, pc, locals, hist, snap, idem, env, held, robot>>

\* the lock is released and the copy handed to the caller
AccessorReturn ==
    /\ call.op \in {"get_position", "get_orientation"}
    /\ lock' = NoOwner
    /\ call' = NoCall
    /\ UNCHANGED <<is_running, core, ref, pc, locals, hist, snap, idem, env, held, robot>>

---------------------------------------------------------------------------
(* get_map_visualization(width, height).  Colours are named by what the    *)
(* code's triples mean in OpenCV's blue-green-red order.  The image is     *)
(* indexed like the grid, [y][x].  The resampling of cv2.resize is not     *)
(* modelled: the result keeps the drawn image and records its new shape.   *)

\* `self.occupancy_grid[y, x] > 50` of the renderer
RenderThreshold == 50
\* radius of the robot marker and length of the heading line
MarkerRadius == 2
HeadingLength == 5

\* sizes a caller may ask for: the grid's own side, or another one
Sizes == {grid_size, grid_size + 1}

\* np.zeros((grid_size, grid_size, 3), dtype=np.uint8)
BlankImage == [y \in Cells |-> [x \in Cells |-> "black"]]

\* the colour of a cell with value v
CellColour(v) ==
    IF v > RenderThreshold THEN "black"
    ELSE IF v = 0 THEN "white" ELSE "gray"

Abs(a) == IF a < 0 THEN -a ELSE a
Max(a, b) == IF a > b THEN a ELSE b
\* a / n rounded to the nearest integer, for n > 0
RoundDiv(a, n) == (2 * a + n) \div (2 * n)

\* math.cos and math.sin of a yaw in degrees, as int() of 5 times them
\* sees them on the axis directions
CosOf(yaw) == CASE yaw = 0 -> 1 [] yaw = 180 -> -1 [] OTHER -> 0
SinOf(yaw) == CASE yaw = 90 -> 1 [] yaw = -90 -> -1 [] OTHER -> 0

\* the pixels of a filled circle of radius r around (cx, cy)
DiscPixels(cx, cy, r) ==
    {q \in Cells \X Cells : (q[1] - cx) * (q[1] - cx) + (q[2] - cy) * (q[2] - cy) <= r * r}

\* the pixels of a line from p to q, clipped to the image
LinePixels(p, q) ==
    LET dx == q[1] - p[1]
        dy == q[2] - p[2]
        n == Max(Abs(dx), Abs(dy))
        all == IF n = 0 THEN {p}
               ELSE {<<p[1] + RoundDiv(k * dx, n), p[2] + RoundDiv(k * dy, n)>> :
                        k \in 0 .. n}
    IN  all \cap (Cells \X Cells)

\* img with the pixels of the set px painted in colour c
Paint(img, px, c) ==
    [y \in Cells |-> [x \in Cells |-> IF <<x, y>> \in px THEN c ELSE img[y][x]]]

\* the grid coordinates of a trajectory entry
GridPoint(pos) == <<GridIndex(pos.x), GridIndex(pos.y)>>
InGridPoint(q) == InGrid(q[1], q[2])

\* `with self.lock:` and the blank image
VizAcquire ==
    /\ lock = NoOwner
    /\ call = NoCall
    /\ lock' = Reader
    /\ call' = [op |-> "get_map_visualization", stage |-> "cells",
                vis_map |-> BlankImage]
    /\ UNCHANGED <<is_running, core, ref, pc, locals, hist, snap, idem, env, held, robot>>

\* a drawing stage of the renderer: the image and the stage change, the lock
\* stays with the caller
VizStage(from, to, img) ==
    /\ call.op = "get_map_visualization"
    /\ call.stage = from
    /\ call' = [call EXCEPT !.stage = to, !.vis_map = img]
    /\ UNCHANGED <<is_running, lock, core, ref, pc, locals, hist, snap, idem, env, held, robot>>

\* every cell is coloured: occupied black, free white, anything else gray
VizCells ==
    VizStage("cells", "robot",
             [y \in Cells |-> [x \in Cells |-> CellColour(occupancy_grid[y][x])]])

\* the robot marker written into the occupancy grid itself instead of the
\* image
VizRobotMarksGrid ==
    /\ call.op = "get_map_visualization"
    /\ call.stage = "robot"
    /\ call' = [call EXCEPT !.stage = "trajectory"]
    /\ occupancy_grid' =
          IF InGrid(GridIndex(position.x), GridIndex(position.y))
          THEN [occupancy_grid EXCEPT
                   ![GridIndex(position.y)][GridIndex(position.x)] = Occupied]
          ELSE occupancy_grid
    /\ UNCHANGED <<is_running, lock, position, orientation, map_points,
                   trajectory, ref, pc, locals, hist, snap, idem, env, held, robot>>

\* the robot marker (red) and the heading line (green), when the robot's
\* cell lies in the grid
VizRobot ==
    LET robot_x == GridIndex(position.x)
        robot_y == GridIndex(position.y)
        end_x == robot_x + HeadingLength * CosOf(orientation.yaw)
        end_y == robot_y + HeadingLength * SinOf(orientation.yaw)
    IN  VizStage("robot", "trajectory",
                 IF InGrid(robot_x, robot_y)
                 THEN Paint(Paint(call.vis_map,
                                  DiscPixels(robot_x, robot_y, MarkerRadius), "red"),
                            LinePixels(<<robot_x, robot_y>>, <<end_x, end_y>>), "green")
                 ELSE call.vis_map)

\* the trajectory polyline (blue) through the entries that lie in the grid
VizTrajectory ==
    LET all == [i \in 1 .. Len(trajectory) |-> GridPoint(trajectory[i])]
        points == SelectSeq(all, InGridPoint)
        px == UNION {LinePixels(points[i], points[i + 1]) :
                        i \in 1 .. (Len(points) - 1)}
    IN  VizStage("trajectory", "resize", Paint(call.vis_map, px, "blue"))

\* cv2.resize when the requested shape (width, height: the call's arguments,
\* first read here) is not the image's
VizResize ==
    /\ call.op = "get_map_visualization"
    /\ call.stage = "resize"
    /\ \E width \in Sizes : \E height \in Sizes :
          call' = [op |-> "get_map_visualization", stage |-> "return",
                   vis_map |-> call.vis_map,
                   shape |-> <<height, width>>,
                   resized |-> (height # grid_size \/ width # grid_size)]
    /\ UNCHANGED <<is_running, lock, core, ref, pc, locals, hist, snap, idem, env, held, robot>>

\* `return vis_map`, which leaves the `with` block and releases the lock
VizReturn ==
    /\ call.op = "get_map_visualization"
    /\ call.stage = "return"
    /\ lock' = NoOwner
    /\ call' = NoCall
    /\ UNCHANGED <<is_running, core, ref, pc, locals, hist, snap, idem, env, held, robot>>

---------------------------------------------------------------------------

ThreadStep(t) ==
    \/ LoopCheck(t) \/ GetFrame(t) \/ Sleep(t) \/ Backoff(t)
    \/ Detect(t) \/ BootFrame(t) \/ BootKeypoints(t) \/ BootDescriptors(t)
    \/ Match(t)
    \/ PoseAcquire(t) \/ PoseUpdate(t)
    \/ MapAcquire(t) \/ MapAppend(t) \/ GridUpdate(t)
    \/ ImuRead(t)
    \/ FuseAcquire(t) \/ FuseUpdate(t)
    \/ RollFrame(t) \/ RollKeypoints(t) \/ RollDescriptors(t)
    \/ TrajAcquire(t) \/ TrajAppend(t) \/ TrajTrim(t)

\* The whole processor with one background loop at a time and a snapshot
\* reader.  Lifecycle calls that return without effect (start() while
\* running, stop() while idle) are left to the lifecycle model below.
Next ==
    \/ ~is_running /\ Start
    \/ is_running /\ Stop
    \/ GetDataCopy
    \/ GetDataReturn
    \/ \E t \in Threads : ThreadStep(t)

Spec == Init /\ [][Next]_vars

---------------------------------------------------------------------------
(* The lifecycle on its own: every thread slot may be used, and the camera  *)
(* looks at a featureless scene, so that detectAndCompute returns no        *)
(* descriptors and every processed frame takes the first-frame branch.      *)

RaceInit ==
    /\ is_running = FALSE
    /\ lock = NoOwner
    /\ position = NewCore.position
    /\ orientation = NewCore.orientation
    /\ map_points = NewCore.map_points
    /\ trajectory = NewCore.trajectory
    /\ occupancy_grid = NewCore.occupancy_grid
    /\ last_frame = None
    /\ last_keypoints = None
    /\ last_descriptors = None
    /\ pc = [t \in Threads |-> "none"]
    /\ frame = [t \in Threads |-> None]
    /\ good_matches = [t \in Threads |-> 0]
    /\ H = [t \in Threads |-> NoH]
    /\ imu_orientation = [t \in Threads |-> NoImu]
    /\ cycles = 0
    /\ cyc = [t \in Threads |-> 0]
    /\ written = [t \in Threads |-> {}]
    /\ pre = [t \in Threads |-> NewCore]
    /\ posBy = 0
    /\ yawBy = 0
    /\ snap = NoSnap
    /\ idem = 0
    /\ slots = MaxThreads
    /\ call = NoCall
    /\ held = NoHeld
    /\ RobotInit
    /\ scene = {Featureless}

RaceThreadStep(t) ==
    \/ LoopCheck(t) \/ GetFrame(t) \/ Sleep(t) \/ Backoff(t)
    \/ Detect(t) \/ BootFrame(t) \/ BootKeypoints(t) \/ BootDescriptors(t)

RaceNext ==
    \/ Start
    \/ Stop
    \/ \E t \in Threads : RaceThreadStep(t)

RaceSpec == RaceInit /\ [][RaceNext]_vars

---------------------------------------------------------------------------
(* Fair scheduling of the lifecycle model: a live thread keeps taking      *)
(* steps, and a thread that keeps asking the camera is eventually given a  *)
(* frame.                                                                  *)

FrameDelivered(t) == GetFrame(t) /\ frame'[t] # None

FairRaceSpec ==
    /\ RaceSpec
    /\ \A t \in Threads : WF_vars(RaceThreadStep(t))
    /\ \A t \in Threads : SF_vars(FrameDelivered(t))

---------------------------------------------------------------------------
(* Properties *)

---------------------------------------------------------------------------
(* The processor with every accessor: the background loop, the lifecycle   *)
(* calls that take effect, and callers of get_data(), get_position(),      *)
(* get_orientation() and get_map_visualization().                          *)

AccessorStep ==
    \/ GetDataCopy \/ GetDataReturn
    \/ GetPositionCopy \/ GetOrientationCopy \/ AccessorReturn
    \/ VizAcquire \/ VizCells \/ VizRobot \/ VizTrajectory \/ VizResize
    \/ VizReturn

AccessNext ==
    \/ ~is_running /\ Start
    \/ is_running /\ Stop
    \/ AccessorStep
    \/ \E t \in Threads : ThreadStep(t)

\* the camera sees one textured scene, or nothing to detect
AccessInit ==
    /\ is_running = FALSE
    /\ lock = NoOwner
    /\ position = NewCore.position
    /\ orientation = NewCore.orientation
    /\ map_points = NewCore.map_points
    /\ trajectory = NewCore.trajectory
    /\ occupancy_grid = NewCore.occupancy_grid
    /\ last_frame = None
    /\ last_keypoints = None
    /\ last_descriptors = None
    /\ pc = [t \in Threads |-> "none"]
    /\ frame = [t \in Threads |-> None]
    /\ good_matches = [t \in Threads |-> 0]
    /\ H = [t \in Threads |-> NoH]
    /\ imu_orientation = [t \in Threads |-> NoImu]
    /\ cycles = 0
    /\ cyc = [t \in Threads |-> 0]
    /\ written = [t \in Threads |-> {}]
    /\ pre = [t \in Threads |-> NewCore]
    /\ posBy = 0
    /\ yawBy = 0
    /\ snap = NoSnap
    /\ idem = 0
    /\ slots = 1
    /\ scene = {Featureless, 3}
    /\ call = NoCall
    /\ held = NoHeld
    /\ RobotInit

AccessSpec == AccessInit /\ [][AccessNext]_vars

\* Fair scheduling of the processor, in a scene with one textured and one
\* featureless view: the background thread keeps taking steps, gets the
\* lock if the lock keeps coming free, and a get_data() call that holds the
\* lock returns
FairSpec ==
    /\ AccessInit
    /\ [][Next]_vars
    /\ \A t \in Threads : SF_vars(ThreadStep(t))
    /\ WF_vars(GetDataReturn)

---------------------------------------------------------------------------
(* What a caller can do with the value get_data() returned.  The value is  *)
(* modelled with the objects it shares with the processor: dict.copy(),    *)
(* list.copy() and ndarray.copy() each build a new container, and          *)
(* list.copy() fills it with the very objects the original list holds.     *)
(* The trajectory holds one dict per entry (position.copy() of line 163).  *)

\* values a caller may store into what it was given
CallerValues == {99}

\* dict.copy() of a dict of numbers: a new dict, nothing shared
DictCopy(d) == [shared |-> FALSE, val |-> d]

\* ndarray.copy(): a new array with its own buffer
ArrayCopy(a) == [shared |-> FALSE, val |-> a]

\* list.copy(): a new list whose i-th item is the i-th object of the
\* original (item.of = i; 0 stands for an object the processor does not hold)
ListCopy(s) ==
    [shared |-> FALSE,
     items |-> [i \in 1 .. Len(s) |-> [of |-> i, val |-> s[i]]]]

\* the dict get_data() returns, in the hands of its caller
Returned ==
    [kept |-> TRUE,
     position |-> DictCopy(position),
     orientation |-> DictCopy(orientation),
     trajectory |-> ListCopy(trajectory),
     map_size |-> Len(map_points),
     occupancy_grid |-> ArrayCopy(occupancy_grid)]

\* the core state after a complete cycle that starts in core state c and
\* updates the pose with n matches of frame f, homography h and an inertial
\* reading r
AfterCycle(c, f, n, h, r) ==
    LET pos == [c.position EXCEPT !.x = @ + h.tx * scale, !.y = @ + h.ty * scale]
        traj == Append(c.trajectory, pos)
    IN  [position |-> pos,
         orientation |-> [roll |-> r.roll, pitch |-> r.pitch,
                          yaw |-> Atan2Deg(h.h10, h.h00)],
         map_points |-> AppendMapPoints(c.map_points, pos, f, 1, n),
         trajectory |-> IF Len(traj) > TrajCap THEN LastN(traj, TrajCap) ELSE traj,
         occupancy_grid |-> UpdateOccupancyGrid(c.occupancy_grid, pos)]

\* core states of an idle processor: new, and after one and two cycles
CopyStates ==
    LET h1 == [h00 |-> 1, h10 |-> 0, tx |-> 10, ty |-> 0]
        r1 == [roll |-> 5, pitch |-> -3]
        one == AfterCycle(NewCore, 3, MinMatches, h1, r1)
    IN  {NewCore, one, AfterCycle(one, 3, MinMatches, h1, r1)}

CopyInit ==
    /\ is_running = FALSE
    /\ lock = NoOwner
    /\ \E c \in CopyStates :
          /\ position = c.position
          /\ orientation = c.orientation
          /\ map_points = c.map_points
          /\ trajectory = c.trajectory
          /\ occupancy_grid = c.occupancy_grid
          /\ last_frame = IF c = NewCore THEN None ELSE 3
          /\ last_keypoints = IF c = NewCore THEN None ELSE 3
          /\ last_descriptors = IF c = NewCore THEN None ELSE Descriptors(3)
    /\ pc = [t \in Threads |-> "none"]
    /\ frame = [t \in Threads |-> None]
    /\ good_matches = [t \in Threads |-> 0]
    /\ H = [t \in Threads |-> NoH]
    /\ imu_orientation = [t \in Threads |-> NoImu]
    /\ cycles = 0
    /\ cyc = [t \in Threads |-> 0]
    /\ written = [t \in Threads |-> {}]
    /\ pre = [t \in Threads |-> NewCore]
    /\ posBy = 0
    /\ yawBy = 0
    /\ snap = NoSnap
    /\ idem = 0
    /\ slots = 1
    /\ scene = {3}
    /\ call = NoCall
    /\ held = NoHeld
    /\ RobotInit

\* get_data() as its caller sees it: the copies are made under the lock and
\* the caller keeps the dict
GetDataKeep ==
    /\ lock = NoOwner
    /\ held' = Returned
    /\ UNCHANGED <<is_running, lock, core, ref, pc, locals, hist, snap, idem, env, call, robot>>

\* data['position']['x'] = v
CallerWritesPosition ==
    /\ held.kept
    /\ \E v \in CallerValues :
          /\ held' = [held EXCEPT !.position.val.x = v]
          /\ position' = IF held.position.shared
                         THEN [position EXCEPT !.x = v] ELSE position
    /\ UNCHANGED <<is_running, lock, orientation, map_points, trajectory,
                   occupancy_grid, ref, pc, locals, hist, snap, idem, env, call, robot>>

\* data['orientation']['roll'] = v
CallerWritesOrientation ==
    /\ held.kept
    /\ \E v \in CallerValues :
          /\ held' = [held EXCEPT !.orientation.val.roll = v]
          /\ orientation' = IF held.orientation.shared
                            THEN [orientation EXCEPT !.roll = v] ELSE orientation
    /\ UNCHANGED <<is_running, lock, position, map_points, trajectory,
                   occupancy_grid, ref, pc, locals, hist, snap, idem, env, call, robot>>

\* data['trajectory'].pop(): the caller's list loses its last item
CallerPopsTrajectory ==
    /\ held.kept
    /\ Len(held.trajectory.items) > 0
    /\ held' = [held EXCEPT !.trajectory.items =
                                SubSeq(@, 1, Len(@) - 1)]
    /\ trajectory' = IF held.trajectory.shared
                     THEN SubSeq(trajectory, 1, Len(trajectory) - 1)
                     ELSE trajectory
    /\ UNCHANGED <<is_running, lock, position, orientation, map_points,
                   occupancy_grid, ref, pc, locals, hist, snap, idem, env, call, robot>>

\* data['trajectory'][i]['x'] = v: a store into the entry object, which is
\* the processor's own entry when the list copy shares it
CallerWritesEntry ==
    /\ held.kept
    /\ \E i \in 1 .. Len(held.trajectory.items) : \E v \in CallerValues :
          LET item == held.trajectory.items[i]
          IN  /\ held' = [held EXCEPT !.trajectory.items[i].val.x = v]
              /\ trajectory' = IF item.of = 0
                               THEN trajectory
                               ELSE [trajectory EXCEPT ![item.of].x = v]
    /\ UNCHANGED <<is_running, lock, position, orientation, map_points,
                   occupancy_grid, ref, pc, locals, hist, snap, idem, env, call, robot>>

\* data['occupancy_grid'][0, 0] = v
CallerWritesGrid ==
    /\ held.kept
    /\ \E v \in CallerValues :
          /\ held' = [held EXCEPT !.occupancy_grid.val[0][0] = v]
          /\ occupancy_grid' = IF held.occupancy_grid.shared
                               THEN [occupancy_grid EXCEPT ![0][0] = v]
                               ELSE occupancy_grid
    /\ UNCHANGED <<is_running, lock, position, orientation, map_points,
                   trajectory, ref, pc, locals, hist, snap, idem, env, call, robot>>

CopyNext ==
    \/ GetDataKeep
    \/ CallerWritesPosition
    \/ CallerWritesOrientation
    \/ CallerPopsTrajectory
    \/ CallerWritesEntry
    \/ CallerWritesGrid

CopySpec == CopyInit /\ [][CopyNext]_vars

---------------------------------------------------------------------------
(* The robot controller: RobotController and the handlers that call it *)

\* everything that belongs to the SLAM processor and its clients
slam == <<is_running, lock, core, ref, pc, locals, hist, snap, idem, env, client>>

\* joystick values a client may send, in hundredths
Joystick == {-100, 0, 3, 50, 100}

\* max_speed as handle_control_command passes it
HandlerMaxSpeed == 60

\* handle_control_command's deadzone: a value with |v| < 0.05 becomes 0
Deadzone(v) == IF Abs(v) < 5 THEN 0 ELSE v

\* handle_control_command's turning factor, in tenths: 0.7 when |x| > 0.1,
\* else 1.0
TurningFactor(x) == IF Abs(x) > 10 THEN 7 ELSE 10

\* max(0, min(max_speed, v)) for a speed v in thousandths
ClampSpeed(v, max_speed) == Max(0, Min(max_speed * 1000, v))

\* int(left_speed) and int(right_speed) of a call with arguments a: the
\* arithmetic is done in thousandths, x and y being hundredths and the
\* turning factor tenths
WheelSpeeds(a) ==
    LET base_speed == Abs(a.y) * a.max_speed * 10
        turning == IF a.x # 0
                   THEN (base_speed * a.turning_factor) \div 10
                   ELSE base_speed
        steer == a.x * a.max_speed * 5
    IN  [left |-> ClampSpeed(turning + steer, a.max_speed) \div 1000,
         right |-> ClampSpeed(turning - steer, a.max_speed) \div 1000]

\* direction = 'forward' if y >= 0 else 'backward'
Direction(a) == IF a.y >= 0 THEN "forward" ELSE "backward"

\* x > 0.7 or x < -0.7: the sharp turns, handed to the library's turnRight,
\* turnLeft and t_down
SharpTurn(a) == a.x > 70 \/ a.x < -70

\* the states the motors may be left in by the hardware calls of a drive
\* command: MotorRun sets each motor's speed; what turnRight, turnLeft and
\* t_down leave behind after their 0.1 s is the library's business: the
\* motors still turning at int(max_speed * 0.7), or stopped again
DriveMotors(a) ==
    IF SharpTurn(a)
    THEN {[m \in Motors |-> v] : v \in {0, (a.max_speed * 7) \div 10}}
    ELSE {[m \in Motors |-> IF m \in {0, 2} THEN WheelSpeeds(a).left
                                            ELSE WheelSpeeds(a).right]}

\* handle_control_command: the deadzone, the speed and the turning factor,
\* then the call of set_differential_drive, which starts by asking for the
\* lock
handle_control_command(c) ==
    /\ rpc[c] = "idle"
    /\ \E x \in Joystick, y \in Joystick :
          rarg' = [rarg EXCEPT ![c] =
                      [x |-> Deadzone(x), y |-> Deadzone(y),
                       max_speed |-> HandlerMaxSpeed,
                       turning_factor |-> TurningFactor(Deadzone(x))]]
    /\ rpc' = [rpc EXCEPT ![c] = "drive_acq"]
    /\ UNCHANGED <<slam, gimbal, robot_lock, motor_speeds, motor_directions, motors>>

\* set_differential_drive: `with self.lock:`
DriveAcquire(c) ==
    /\ rpc[c] = "drive_acq"
    /\ robot_lock = NoOwner
    /\ robot_lock' = c
    /\ rpc' = [rpc EXCEPT ![c] = "drive"]
    /\ UNCHANGED <<slam, gimbal, motor_speeds, motor_directions, motors, rarg>>

\* set_differential_drive under the lock: with no input it calls
\* stop_all_motors() while still holding the lock; otherwise it drives the
\* motors, records speeds and directions, and leaves the `with` block
DriveBody(c) ==
    /\ rpc[c] = "drive"
    /\ IF rarg[c].x = 0 /\ rarg[c].y = 0
       THEN /\ rpc' = [rpc EXCEPT ![c] = "inner_stop_acq"]
            /\ UNCHANGED <<robot_lock, motor_speeds, motor_directions,
                           motors, rarg>>
       ELSE /\ motors' \in DriveMotors(rarg[c])
            /\ motor_speeds' =
                  [m \in Motors |-> IF m \in {0, 2}
                                    THEN WheelSpeeds(rarg[c]).left
                                    ELSE WheelSpeeds(rarg[c]).right]
            /\ motor_directions' = [m \in Motors |-> Direction(rarg[c])]
            /\ robot_lock' = NoOwner
            /\ rpc' = [rpc EXCEPT ![c] = "idle"]
            /\ rarg' = [rarg EXCEPT ![c] = NoArg]
    /\ UNCHANGED <<slam, gimbal>>

\* handle_disconnect (and cleanup, and any direct caller): the call of
\* stop_all_motors, which starts by asking for the lock
handle_disconnect(c) ==
    /\ rpc[c] = "idle"
    /\ rpc' = [rpc EXCEPT ![c] = "stop_acq"]
    /\ UNCHANGED <<slam, gimbal, robot_lock, motor_speeds, motor_directions, motors,
                   rarg>>

\* stop_all_motors: `with self.lock:`; threading.Lock is not reentrant, so
\* the caller waits for a free lock even when it is the one holding it
StopAcquire(c) ==
    /\ rpc[c] \in {"stop_acq", "inner_stop_acq"}
    /\ robot_lock = NoOwner
    /\ robot_lock' = c
    /\ rpc' = [rpc EXCEPT ![c] = IF rpc[c] = "stop_acq" THEN "stop"
                                                         ELSE "inner_stop"]
    /\ UNCHANGED <<slam, gimbal, motor_speeds, motor_directions, motors, rarg>>

\* stop_all_motors under the lock: MotorStop for the four motors, the
\* recorded speeds set to zero, and the lock released on the way out
StopBody(c) ==
    /\ rpc[c] \in {"stop", "inner_stop"}
    /\ motors' = [m \in Motors |-> 0]
    /\ motor_speeds' = [m \in Motors |-> 0]
    /\ robot_lock' = NoOwner
    /\ rpc' = [rpc EXCEPT ![c] = "idle"]
    /\ rarg' = [rarg EXCEPT ![c] = NoArg]
    /\ UNCHANGED <<slam, gimbal, motor_directions>>

RobotNext ==
    \E c \in Callers :
        \/ handle_control_command(c)
        \/ DriveAcquire(c)
        \/ DriveBody(c)
        \/ handle_disconnect(c)
        \/ StopAcquire(c)
        \/ StopBody(c)

RobotSpec == Init /\ [][RobotNext]_vars

\* every caller that can run does run, and a caller waiting for the lock
\* gets it if the lock keeps coming free
FairRobotSpec ==
    /\ RobotSpec
    /\ \A c \in Callers :
          /\ WF_vars(DriveBody(c))
          /\ WF_vars(StopBody(c))
          /\ SF_vars(DriveAcquire(c))
          /\ SF_vars(StopAcquire(c))

---------------------------------------------------------------------------
(* The camera gimbal: control_camera_gimbal and center_camera *)

\* pan and tilt values a caller may pass, in halves: -1, -0.5, 0, 0.5, 1
GimbalInputs == {-2, -1, 0, 1, 2}

\* the servo ranges control_camera_gimbal clamps to
PanMin == 35
PanMax == 125
TiltMin == 0
TiltMax == 85

\* pan * 2 and tilt * 2 for a value v in halves
Sensitivity(v) == v

\* NewPan with an upper limit five degrees too wide
NewPanWide(angle, pan) ==
    IF pan = 0 THEN angle
    ELSE Max(PanMin, Min(PanMax + 5, angle + Sensitivity(pan)))

\* max(35, min(125, self.pan_angle + pan_change)); a pan of 0 leaves the
\* angle alone
NewPan(angle, pan) ==
    IF pan = 0 THEN angle
    ELSE Max(PanMin, Min(PanMax, angle + Sensitivity(pan)))

\* max(0, min(85, self.tilt_angle - tilt_change)); a tilt of 0 leaves the
\* angle alone
NewTilt(angle, tilt) ==
    IF tilt = 0 THEN angle
    ELSE Max(TiltMin, Min(TiltMax, angle - Sensitivity(tilt)))

\* a caller (handle_camera_control, the servo test) calls
\* control_camera_gimbal, which starts by asking for the lock
GimbalCall(c) ==
    /\ rpc[c] = "idle"
    /\ rpc' = [rpc EXCEPT ![c] = "gimbal_acq"]
    /\ UNCHANGED <<slam, gimbal, robot_lock, motor_speeds, motor_directions,
                   motors, rarg>>

\* control_camera_gimbal: `with self.lock:`
GimbalAcquire(c) ==
    /\ rpc[c] = "gimbal_acq"
    /\ robot_lock = NoOwner
    /\ robot_lock' = c
    /\ rpc' = [rpc EXCEPT ![c] = "gimbal"]
    /\ UNCHANGED <<slam, gimbal, motor_speeds, motor_directions, motors, rarg>>

\* control_camera_gimbal under the lock, for the pan and tilt it was called
\* with
GimbalBody(c) ==
    /\ rpc[c] = "gimbal"
    /\ \E pan \in GimbalInputs, tilt \in GimbalInputs :
          /\ pan_angle' = NewPan(pan_angle, pan)
          /\ tilt_angle' = NewTilt(tilt_angle, tilt)
    /\ robot_lock' = NoOwner
    /\ rpc' = [rpc EXCEPT ![c] = "idle"]
    /\ UNCHANGED <<slam, motor_speeds, motor_directions, motors, rarg>>

\* a caller calls center_camera, which starts by asking for the lock
CenterCall(c) ==
    /\ rpc[c] = "idle"
    /\ rpc' = [rpc EXCEPT ![c] = "center_acq"]
    /\ UNCHANGED <<slam, gimbal, robot_lock, motor_speeds, motor_directions,
                   motors, rarg>>

\* center_camera: `with self.lock:`
CenterAcquire(c) ==
    /\ rpc[c] = "center_acq"
    /\ robot_lock = NoOwner
    /\ robot_lock' = c
    /\ rpc' = [rpc EXCEPT ![c] = "center"]
    /\ UNCHANGED <<slam, gimbal, motor_speeds, motor_directions, motors, rarg>>

\* center_camera under the lock
CenterBody(c) ==
    /\ rpc[c] = "center"
    /\ pan_angle' = PanCentre
    /\ tilt_angle' = TiltCentre
    /\ robot_lock' = NoOwner
    /\ rpc' = [rpc EXCEPT ![c] = "idle"]
    /\ UNCHANGED <<slam, motor_speeds, motor_directions, motors, rarg>>

GimbalNext ==
    \E c \in Callers :
        \/ GimbalCall(c)
        \/ GimbalAcquire(c)
        \/ GimbalBody(c)
        \/ CenterCall(c)
        \/ CenterAcquire(c)
        \/ CenterBody(c)

GimbalSpec == Init /\ [][GimbalNext]_vars

---------------------------------------------------------------------------
(* _update_occupancy_grid on positions around the edges of the grid *)

\* positions, in hundredths, on either side of the low and the high edge of
\* the grid, and the centre
EdgePositions ==
    LET lo == -(grid_center * grid_resolution)
        hi == (grid_size - grid_center) * grid_resolution
    IN  ((lo - 11) .. (lo + 1)) \cup {0} \cup {hi - 1, hi, hi + 5}

\* a running processor whose thread, in the cycle after the first frame, has
\* moved the position from the origin by the homography's translation, has
\* appended the map points, and stands at the call of _update_occupancy_grid
\* with the lock held
GridInit ==
    /\ is_running = TRUE
    /\ lock = 1
    /\ \E x \in EdgePositions, y \in EdgePositions :
          /\ position = [x |-> x * scale, y |-> y * scale, z |-> 0]
          /\ H = [t \in Threads |->
                    IF t = 1 THEN [h00 |-> 1, h10 |-> 0, tx |-> x, ty |-> y]
                    ELSE NoH]
          /\ map_points = AppendMapPoints(<< >>, [x |-> x * scale,
                                                  y |-> y * scale, z |-> 0],
                                          3, 1, MinMatches)
    /\ orientation = [roll |-> 0, pitch |-> 0, yaw |-> Atan2Deg(0, 1)]
    /\ trajectory = << >>
    /\ occupancy_grid = NewCore.occupancy_grid
    /\ last_frame = 3
    /\ last_keypoints = 3
    /\ last_descriptors = Descriptors(3)
    /\ pc = [t \in Threads |-> IF t = 1 THEN "grid_upd" ELSE "none"]
    /\ frame = [t \in Threads |-> IF t = 1 THEN 3 ELSE None]
    /\ good_matches = [t \in Threads |-> IF t = 1 THEN MinMatches ELSE 0]
    /\ imu_orientation = [t \in Threads |-> NoImu]
    /\ cycles = 2
    /\ cyc = [t \in Threads |-> IF t = 1 THEN 2 ELSE 0]
    /\ written = [t \in Threads |-> IF t = 1 THEN {"pos", "yaw", "map"} ELSE {}]
    /\ pre = [t \in Threads |-> NewCore]
    /\ posBy = 2
    /\ yawBy = 2
    /\ snap = NoSnap
    /\ idem = 0
    /\ slots = 1
    /\ scene = {3}
    /\ call = NoCall
    /\ held = NoHeld
    /\ RobotInit

GridNext == \E t \in Threads : GridUpdate(t)

GridSpec == GridInit /\ [][GridNext]_vars

\* thread t is inside a cycle: it holds a frame handed to _process_frame
InCycle(t) == frame[t] # None

\* thread t is executing the loop body (not waiting in a sleep, not about
\* to test the flag)
Cycling(t) == pc[t] \notin {"none", "check", "sleep", "backoff"}

\* thread t's cycle has passed the matching stage without a pose update
Skipped(t) ==
    /\ pc[t] \in {"imu", "fuse_acq", "fuse_upd", "roll_f", "roll_k", "roll_d",
                  "traj_acq", "traj_app", "traj_trim"}
    /\ (good_matches[t] < 8 \/ H[t] = NoH)

\* C1: every snapshot get_data() returns while a cycle is in flight holds
\* either none or all of that cycle's writes: the cycle's position update is
\* never seen without its map-point, roll/pitch and trajectory updates, nor
\* the map-point update without the position update.
C1_SnapshotWholeCycle ==
    snap.taken =>
        \A t \in Threads :
            /\ ("pos" \in snap.written[t]) <=> ("map" \in snap.written[t])
            /\ ("pos" \in snap.written[t]) => ("rp" \in snap.written[t])
            /\ ("pos" \in snap.written[t]) => ("traj" \in snap.written[t])

\* C2: in every snapshot get_data() returns, position and yaw were last
\* assigned by the same cycle.
C2_PositionYawSameCycle == snap.taken => snap.posBy = snap.yawBy

\* a snapshot taken in the middle of a cycle that has updated the pose
C2_Witness ==
    /\ snap.taken
    /\ snap.posBy > 0
    /\ \E t \in Threads : "pos" \in snap.written[t] /\ "traj" \notin snap.written[t]

\* C3: whenever no background thread holds the lock, the trajectory has at
\* most TrajCap entries and the map-point sequence at most MapCap, and the
\* map_size and trajectory of every snapshot respect the same caps.
C3_BoundedGrowth ==
    /\ lock \notin Threads =>
          Len(trajectory) <= TrajCap /\ Len(map_points) <= MapCap
    /\ snap.taken =>
          snap.map_size <= MapCap /\ Len(snap.trajectory) <= TrajCap

\* the trajectory has just been appended past its cap, under the lock, and
\* the map-point sequence has been cut back to its cap
C3_Witness ==
    /\ Len(trajectory) = TrajCap + 1
    /\ Len(map_points) = MapCap
    /\ lock \in Threads

\* C4: a cell whose value is at or above 50 is never lowered below 50.
C4_OccupiedMonotonic ==
    [][\A y \in Cells : \A x \in Cells :
          occupancy_grid[y][x] >= 50 => occupancy_grid'[y][x] >= 50]_vars

\* a grid update has just run with an occupied cell inside the 5x5
\* neighbourhood of the robot's cell
C4_Witness ==
    \E t \in Threads :
        /\ pc[t] = "imu"
        /\ "grid" \in written[t]
        /\ \E y \in Cells : \E x \in Cells :
              /\ <<x, y>> # <<GridIndex(position.x), GridIndex(position.y)>>
              /\ x - GridIndex(position.x) \in -2 .. 2
              /\ y - GridIndex(position.y) \in -2 .. 2
              /\ occupancy_grid[y][x] >= 50

\* C5: at most one background thread is executing the processing cycle.
C5_SingleBackgroundContext ==
    Cardinality({t \in Threads : Cycling(t)}) <= 1

\* C6: is_running is a flag (Idle or Running), and a start() while running
\* or a stop() while idle changes nothing: no thread, no flag, no state.
C6_LifecycleIdempotent ==
    /\ [](is_running \in BOOLEAN)
    /\ [][idem' # idem =>
            UNCHANGED <<is_running, lock, core, ref, pc, locals, hist, snap>>]_vars

\* start() has been called while running, or stop() while idle, with a
\* background thread alive
C6_Witness == idem = 1 /\ is_running /\ \E t \in Threads : pc[t] # "none"

\* C7: whenever the processor is running, and so after a stop() followed
\* by a start(), a frame is eventually handed to frame processing unless
\* stop() is called first.
C7_RestartResumes ==
    is_running ~> ((\E t \in Threads : pc[t] = "detect") \/ ~is_running)

\* the thread of a second start(), made while the first thread was still
\* alive, processes a frame
C7_Witness == is_running /\ pc[2] = "detect" /\ pc[1] # "none"

\* C8: a thread ends only at the loop test with the flag cleared; an error
\* leaves the flag alone and leads, through the backoff sleep, back to the
\* loop test.
C8_ErrorKeepsLoopAlive ==
    [][\A t \in Threads :
          /\ (pc[t] # "none" /\ pc'[t] = "none") => (pc[t] = "check" /\ ~is_running)
          /\ (pc[t] # "backoff" /\ pc'[t] = "backoff") => is_running' = is_running
          /\ (pc[t] = "backoff" /\ pc'[t] # "backoff") => pc'[t] = "check"]_vars

\* a running loop is in its backoff sleep after an error raised past the
\* first processed frame
C8_Witness ==
    \E t \in Threads : pc[t] = "backoff" /\ is_running /\ last_frame # None

\* C9: a cycle that raises an error leaves position, orientation, map
\* points, trajectory and grid as they were when the cycle began.
C9_ErrorMeansNoUpdate ==
    [][\A t \in Threads :
          (InCycle(t) /\ pc'[t] = "backoff") => CoreState = pre[t]]_vars

\* C10: a cycle past the first frame in which fewer than 8 matches survive
\* or no homography is found never changes position or yaw, and when frame
\* processing returns, position and yaw are those of the cycle's start and
\* the stored reference frame, keypoints and descriptors are the cycle's.
C10_SkipKeepsPoseRollsFrame ==
    [][\A t \in Threads :
          /\ (Skipped(t) /\ pc'[t] # pc[t]) =>
                /\ position' = position
                /\ orientation'.yaw = orientation.yaw
          /\ (Skipped(t) /\ pc[t] = "traj_trim" /\ pc'[t] = "sleep") =>
                /\ position' = pre[t].position
                /\ orientation'.yaw = pre[t].orientation.yaw
                /\ last_frame' = frame[t]
                /\ last_keypoints' = frame[t]
                /\ last_descriptors' = Descriptors(frame[t])]_vars

\* a cycle in which 7 matches survived is about to return with the
\* reference frame rolled forward to its own frame
C10_Witness ==
    \E t \in Threads :
        /\ pc[t] = "traj_trim"
        /\ good_matches[t] = 7
        /\ last_frame = frame[t]
        /\ last_descriptors = Descriptors(frame[t])

\* C11: a frame processed while no reference frame, keypoint set or
\* descriptor set is stored takes the first-frame branch, whose steps only
\* store the frame as the reference and return with position, orientation,
\* map points, trajectory and grid as they were when the cycle began; the
\* matching stage is entered only with all three stored, and a match is
\* attempted only against a non-empty stored keypoint and descriptor set.
C11_BootstrapNoOp ==
    [][\A t \in Threads :
          /\ (pc[t] = "detect" /\ pc'[t] = "match") =>
                (last_frame # None /\ last_keypoints # None
                   /\ last_descriptors # None)
          /\ (pc[t] = "detect" /\ pc'[t] \notin {"detect", "match", "backoff"}) =>
                pc'[t] = "boot_f"
          /\ (pc[t] \in {"boot_f", "boot_k", "boot_d"} /\ pc'[t] # pc[t]) =>
                /\ UNCHANGED core
                /\ pc'[t] \in {"boot_k", "boot_d", "sleep"}
          /\ (pc[t] = "boot_d" /\ pc'[t] # pc[t]) =>
                /\ pc'[t] = "sleep"
                /\ CoreState' = pre[t]
                /\ last_frame' = frame[t]
                /\ last_keypoints' = frame[t]
                /\ last_descriptors' = Descriptors(frame[t])
          /\ (pc[t] = "match" /\ (good_matches'[t] # 0 \/ pc'[t] = "backoff")) =>
                (NKeypoints(last_keypoints) > 0 /\ last_descriptors # None)]_vars

\* the very first frame, one with keypoints, is about to return from the
\* first-frame branch with its image and keypoints stored
C11_Witness ==
    \E t \in Threads :
        /\ pc[t] = "boot_d"
        /\ frame[t] \in Textured
        /\ cyc[t] = 1
        /\ last_frame = frame[t]
        /\ last_descriptors = None

\* C12: the detector never sends the loop to its error handler, and a cycle
\* whose frame has no keypoints or no descriptors, or that finds no stored
\* descriptors, returns with position and yaw as they were when it began and
\* with the reference frame, keypoints and descriptors rolled forward to its
\* own frame.
C12_DetectorFailureIsSkip ==
    [][\A t \in Threads :
          /\ (pc[t] = "detect" /\ pc'[t] # pc[t]) => pc'[t] # "backoff"
          /\ (/\ pc[t] \in {"boot_d", "traj_trim"}
              /\ pc'[t] = "sleep"
              /\ \/ NKeypoints(frame[t]) = 0
                 \/ Descriptors(frame[t]) = None
                 \/ pc[t] = "boot_d") =>
                /\ position' = pre[t].position
                /\ orientation'.yaw = pre[t].orientation.yaw
                /\ last_frame' = frame[t]
                /\ last_keypoints' = frame[t]
                /\ last_descriptors' = Descriptors(frame[t])]_vars

\* C14: a background thread that is calling the frame source or the
\* inertial source does not hold the state lock.
C14_NoLockAcrossSensorCalls ==
    \A t \in Threads : pc[t] \in {"fetch", "imu"} => lock # t

\* a thread is at its inertial-source calls, after its map update, while a
\* get_data() caller holds the lock
C14_Witness ==
    \E t \in Threads : pc[t] = "imu" /\ "map" \in written[t] /\ lock = Reader

\* the n most recent entries of s, in their order (all of s when it has no
\* more than n)
MostRecent(s, n) ==
    IF Len(s) <= n THEN s ELSE [i \in 1 .. n |-> s[Len(s) - n + i]]

\* C17: the map update leaves the map-point sequence equal to the most
\* recent MapCap entries of the old sequence followed by the cycle's new
\* points, in order; the trajectory append adds the position at the end, and
\* the trim leaves the most recent TrajCap entries in order.
C17_FifoEviction ==
    [][\A t \in Threads :
          /\ (pc[t] = "map_upd" /\ pc'[t] = "grid_upd") =>
                map_points' =
                    MostRecent(map_points \o
                                 [i \in 1 .. good_matches[t] |->
                                     MapPoint(position, frame[t], i)],
                               MapCap)
          /\ (pc[t] = "traj_app" /\ pc'[t] = "traj_trim") =>
                trajectory' = trajectory \o <<position>>
          /\ (pc[t] = "traj_trim" /\ pc'[t] = "sleep") =>
                trajectory' = MostRecent(trajectory, TrajCap)]_vars

\* the trajectory stands one past its cap with distinguishable oldest and
\* newest entries, about to be trimmed, after the map-point sequence was cut
\* back to its cap
C17_Witness ==
    \E t \in Threads :
        /\ pc[t] = "traj_trim"
        /\ Len(trajectory) = TrajCap + 1
        /\ trajectory[1] # trajectory[TrajCap + 1]
        /\ Len(map_points) = MapCap
        /\ map_points[1] # map_points[MapCap]

\* C18: position and yaw change only in a pose update; a pose update with
\* homography H adds 0.01*H[0,2] to position.x and 0.01*H[1,2] to position.y
\* (H[0,2] and H[1,2] in hundredths), leaves position.z alone and sets yaw
\* to the angle of H whatever yaw was before; position.z is always 0.
C18_PositionIntegratesYawOverwrites ==
    /\ [](position.z = 0)
    /\ [][/\ (position' # position \/ orientation'.yaw # orientation.yaw) =>
                \E t \in Threads : pc[t] = "pose_upd" /\ pc'[t] # pc[t]
          /\ \A t \in Threads :
                (pc[t] = "pose_upd" /\ pc'[t] # pc[t]) =>
                    /\ position'.x = position.x + H[t].tx
                    /\ position'.y = position.y + H[t].ty
                    /\ position'.z = position.z
                    /\ orientation'.yaw =
                          (CASE H[t].h10 = 0 /\ H[t].h00 = 1 -> 0
                             [] H[t].h10 = 1 /\ H[t].h00 = 0 -> 90)]_vars

\* a second pose update has run on a position and a yaw that the first one
\* had moved away from their initial values, and has turned yaw back to 0
C18_Witness ==
    \E t \in Threads :
        /\ pc[t] = "map_acq"
        /\ cyc[t] = 3
        /\ pre[t].position.x # 0
        /\ pre[t].orientation.yaw = 90
        /\ position # pre[t].position
        /\ orientation.yaw = 0

\* C19: a pose update whose homography has translation (10, 0) raises
\* position.x by 0.1 (10 hundredths) and leaves position.y alone; a pose
\* update with the identity homography leaves position alone and yaw at 0.
C19_PoseUpdateExamples ==
    [][\A t \in Threads :
          (pc[t] = "pose_upd" /\ pc'[t] # pc[t]) =>
              /\ (H[t].tx = 10 /\ H[t].ty = 0) =>
                    (position'.x = position.x + 10 /\ position'.y = position.y)
              /\ (H[t] = Identity) =>
                    (position' = position /\ orientation'.yaw = 0)]_vars

\* both examples have run: the first pose update with translation (10, 0)
\* from the origin, then one with the identity homography
C19_Witness ==
    \E t \in Threads :
        /\ pc[t] = "map_acq"
        /\ H[t] = Identity
        /\ pre[t].position = [x |-> 10, y |-> 0, z |-> 0]
        /\ position = pre[t].position
        /\ orientation.yaw = 0

\* C20: the fusion step copies the roll and pitch the inertial source
\* returned in this cycle into the pose and changes neither yaw nor
\* position; when the cycle returns, roll and pitch are still those values.
C20_FusionLastValueWins ==
    [][\A t \in Threads :
          /\ (pc[t] = "fuse_upd" /\ pc'[t] # pc[t]) =>
                /\ orientation'.roll = imu_orientation[t].roll
                /\ orientation'.pitch = imu_orientation[t].pitch
                /\ orientation'.yaw = orientation.yaw
                /\ position' = position
          /\ (pc[t] = "traj_trim" /\ pc'[t] = "sleep") =>
                /\ orientation'.roll = imu_orientation[t].roll
                /\ orientation'.pitch = imu_orientation[t].pitch]_vars

\* fusion has just overwritten a non-zero roll and pitch with the zero
\* reading of this cycle, after a pose update that turned yaw to 90
C20_Witness ==
    \E t \in Threads :
        /\ pc[t] = "roll_f"
        /\ pre[t].orientation.roll = 5
        /\ imu_orientation[t] = [roll |-> 0, pitch |-> 0]
        /\ orientation = [roll |-> 0, pitch |-> 0, yaw |-> 90]
        /\ "pos" \in written[t]

\* get_map_visualization() has started drawing and has not yet returned
Rendering ==
    /\ call.op = "get_map_visualization"
    /\ call.stage \in {"robot", "trajectory", "resize", "return"}

\* C15: while get_map_visualization() draws or resamples the image, its
\* caller does not hold the state lock, so no background thread waits for
\* the lock during rendering.
C15_RenderOutsideLock ==
    Rendering =>
        /\ lock # Reader
        /\ \A t \in Threads :
              pc[t] \in {"pose_acq", "map_acq", "fuse_acq", "traj_acq"} =>
                  lock = NoOwner

\* C16: a step of get_data(), get_position(), get_orientation() or
\* get_map_visualization() leaves position, orientation, map points,
\* trajectory, grid and the stored reference frame unchanged.
C16_AccessorsOnlyRead ==
    [][(snap' # snap \/ call' # call) => UNCHANGED <<core, ref>>]_vars

\* the renderer has drawn occupied cells, the robot and a trajectory
\* polyline while a background thread, in the middle of a cycle, waits for
\* the lock
C16_Witness ==
    /\ call.op = "get_map_visualization"
    /\ call.stage = "return"
    /\ \E y \in Cells : \E x \in Cells : call.vis_map[y][x] = "blue"
    /\ \E y \in Cells : \E x \in Cells : call.vis_map[y][x] = "red"
    /\ \E t \in Threads : pc[t] = "fuse_acq"

\* C13: whatever a caller stores into the value get_data() gave it (a field
\* of the position or orientation record, the trajectory list, an entry of
\* the trajectory, a cell of the grid), the processor's position,
\* orientation, map points, trajectory and grid stay as they are.
C13_SnapshotSharesNothing ==
    [][held' # held => UNCHANGED core]_vars

\* C21: a grid update for a position whose cell (gx, gy) lies in the grid
\* sets that cell to 100; every other cell within 2 rows and 2 columns of it
\* becomes 0 if it was below 50 and keeps its value otherwise; every cell
\* farther away keeps its value.
C21_GridUpdateInBounds ==
    [][\A t \in Threads :
          LET gx == GridIndex(position.x)
              gy == GridIndex(position.y)
          IN  (pc[t] = "grid_upd" /\ pc'[t] # pc[t] /\ InGrid(gx, gy)) =>
                \A y \in Cells : \A x \in Cells :
                    occupancy_grid'[y][x] =
                        IF x = gx /\ y = gy THEN 100
                        ELSE IF Abs(x - gx) <= 2 /\ Abs(y - gy) <= 2
                                /\ occupancy_grid[y][x] < 50
                             THEN 0
                             ELSE occupancy_grid[y][x]]_vars

\* a grid update has just marked a cell off the grid's diagonal, with an
\* occupied cell next to it left as it was and a column out of its reach
C21_Witness ==
    \E t \in Threads :
        /\ pc[t] = "imu"
        /\ "grid" \in written[t]
        /\ GridIndex(position.x) = 3
        /\ GridIndex(position.y) = 2
        /\ occupancy_grid[2][3] = 100
        /\ occupancy_grid[2][2] = 100
        /\ pre[t].occupancy_grid[2][2] = 100

\* C22: a grid update for a position whose grid coordinates
\* trunc(centre + position / 0.1) fall outside the grid raises no error and
\* leaves every cell as it was.
C22_GridUpdateOutOfBounds ==
    [][\A t \in Threads :
          LET cx == TruncDiv(grid_center * 10 + position.x, 10)
              cy == TruncDiv(grid_center * 10 + position.y, 10)
          IN  (/\ pc[t] = "grid_upd"
               /\ pc'[t] # pc[t]
               /\ (cx < 0 \/ cx >= grid_size \/ cy < 0 \/ cy >= grid_size)) =>
                  /\ occupancy_grid' = occupancy_grid
                  /\ pc'[t] = "imu"]_vars

\* a grid update has just run for a position one column left of the grid,
\* whose neighbourhood reaches into the grid, and has marked nothing
C22_Witness ==
    \E t \in Threads :
        /\ pc[t] = "imu"
        /\ "map" \in written[t]
        /\ "grid" \notin written[t]
        /\ position.x = -30
        /\ occupancy_grid = pre[t].occupancy_grid
        /\ occupancy_grid[2][2] = 100

\* C23: as long as no frame has been handed to frame processing, every
\* cell of the occupancy grid holds an "unknown" value, one in 1..49.
C23_InitialCellsUnknown ==
    (last_frame = None /\ \A t \in Threads : frame[t] = None) =>
        \A y \in Cells : \A x \in Cells : occupancy_grid[y][x] \in 1 .. 49

C26_StageOrder ==
    \A t \in Threads :
        H[t] # NoH =>
            LET w == written[t]
            IN  /\ (w \cap {"rp", "map", "traj", "grid"} # {}) =>
                      {"pos", "yaw"} \subseteq w
                /\ (w \cap {"map", "traj"} # {}) => "rp" \in w
                /\ ("grid" \in w) => {"map", "traj"} \subseteq w

\* C27: when get_frame() returns None the cycle ends at once in the normal
\* sleep, with position, orientation, map points, trajectory, grid and the
\* stored reference frame untouched, and the sleep leads back to the loop
\* test.
C27_NoFrameNoChange ==
    [][\A t \in Threads :
          /\ (pc[t] = "fetch" /\ pc'[t] # pc[t] /\ frame'[t] = None
                 /\ pc'[t] # "backoff") =>
                /\ pc'[t] = "sleep"
                /\ UNCHANGED <<core, ref, is_running>>
          /\ (pc[t] = "sleep" /\ pc'[t] # pc[t]) => pc'[t] = "check"]_vars

\* a running loop is in its normal sleep with no reference frame stored:
\* its cycles so far were all given no frame
C27_Witness ==
    \E t \in Threads :
        /\ pc[t] = "sleep"
        /\ is_running
        /\ last_frame = None

\* C28: start() and stop() leave position, orientation, map points,
\* trajectory and grid as they are; no step shortens the map-point sequence
\* while its length is what a reader can see, and a step that shortens the
\* trajectory is the trim that leaves its most recent TrajCap entries.
C28_NeverClearedWholesale ==
    [][/\ is_running' # is_running => UNCHANGED core
       /\ Len(map_points') >= Len(map_points)
       /\ \/ Len(trajectory') >= Len(trajectory)
          \/ /\ Len(trajectory) > TrajCap
             /\ trajectory' = MostRecent(trajectory, TrajCap)
       /\ (Len(map_points') = Len(map_points) /\ map_points' # map_points) =>
             Len(map_points) = MapCap]_vars

\* stop() has been called and the loop has ended, with a map-point sequence
\* cut back to its cap and a full trajectory still in place
C28_Witness ==
    /\ ~is_running
    /\ \A t \in Threads : pc[t] = "none"
    /\ Len(map_points) = MapCap
    /\ Len(trajectory) = TrajCap
    /\ position.x # 0
    /\ cycles = MaxCycles

\* C29: a set_differential_drive call with x = 0 and y = 0 (what the control
\* handler makes of a joystick inside the deadzone) returns and no longer
\* holds the controller lock, so that later controller calls can proceed.
C29_ZeroDriveReturns ==
    \A c \in Callers :
        (rpc[c] = "drive" /\ rarg[c].x = 0 /\ rarg[c].y = 0)
            ~> (rpc[c] = "idle" /\ robot_lock # c)

\* C30: every stop_all_motors() call, whether made by the disconnect handler
\* or directly after drive commands, completes, and on completion the four
\* motors are stopped and the recorded motor_speeds are [0, 0, 0, 0].
C30_StopAlwaysCompletes ==
    \A c \in Callers :
        (rpc[c] = "stop_acq")
            ~> (/\ rpc[c] = "idle"
                /\ motors = [m \in Motors |-> 0]
                /\ motor_speeds = [m \in Motors |-> 0])

\* C31: whatever control_camera_gimbal and center_camera calls have been
\* made, the stored pan angle lies in 35..125 and the stored tilt angle in
\* 0..85, and a center_camera call leaves them at (80, 40).
C31_GimbalInRange ==
    [][/\ pan_angle \in 35..125
       /\ tilt_angle \in 0..85
       /\ pan_angle' \in 35..125
       /\ tilt_angle' \in 0..85
       /\ \A c \in Callers :
             (rpc[c] = "center" /\ rpc'[c] = "idle")
                 => (pan_angle' = 80 /\ tilt_angle' = 40)]_vars

\* both angles stand at a limit of their range, where the next
\* control_camera_gimbal call is clamped, and a center_camera call holds
\* the lock
C31_Witness ==
    /\ pan_angle = 35
    /\ tilt_angle = 85
    /\ \E c \in Callers : rpc[c] = "center" /\ robot_lock = c

\* C32: a cycle that comes back from frame processing past the first-frame
\* branch without having updated the pose leaves the map points, the
\* occupancy grid, the position and the yaw as it found them, has set roll
\* and pitch to what the inertial source returned, and has added one
\* trajectory entry, the unchanged position (then the cap applies); and the
\* grid changes only in the grid update of a cycle that has updated the pose.
C32_SkippedCycleEffects ==
    [][/\ \A t \in Threads :
             (pc[t] = "traj_trim" /\ pc'[t] = "sleep" /\ "pos" \notin written[t]) =>
                 /\ good_matches[t] < 8 \/ H[t] = NoH
                 /\ map_points' = pre[t].map_points
                 /\ occupancy_grid' = pre[t].occupancy_grid
                 /\ position' = pre[t].position
                 /\ orientation' = [roll |-> imu_orientation[t].roll,
                                    pitch |-> imu_orientation[t].pitch,
                                    yaw |-> pre[t].orientation.yaw]
                 /\ trajectory' =
                       MostRecent(pre[t].trajectory \o <<pre[t].position>>,
                                  TrajCap)
       /\ occupancy_grid' # occupancy_grid =>
             \E t \in Threads :
                 /\ pc[t] = "grid_upd"
                 /\ {"pos", "yaw", "map"} \subseteq written[t]
                 /\ H[t] # NoH]_vars

\* a cycle with too few matches, after a cycle that had built a map: it has
\* replaced roll and pitch, appended the position it found, and the map
\* points and occupied cells are those it found
C32_Witness ==
    \E t \in Threads :
        /\ pc[t] = "traj_trim"
        /\ written[t] = {"rp", "ref", "traj"}
        /\ good_matches[t] = 7
        /\ Len(pre[t].map_points) > 0
        /\ map_points = pre[t].map_points
        /\ occupancy_grid = pre[t].occupancy_grid
        /\ \E y \in Cells : \E x \in Cells : occupancy_grid[y][x] = 100
        /\ pre[t].orientation.roll = 0
        /\ orientation.roll = 5
        /\ trajectory = pre[t].trajectory \o <<pre[t].position>>

\* C33: once stop() has cleared the flag, a background thread that reaches
\* the loop test leaves the loop, so it completes at most the cycle it was
\* in; under fair scheduling every thread has exited before the flag is set
\* again, if it ever is; and while no thread is alive the core state is not
\* written.
C33_StopTerminates ==
    /\ ~is_running ~> (is_running \/ \A t \in Threads : pc[t] = "none")
    /\ [][/\ \A t \in Threads :
                (~is_running /\ pc[t] = "check" /\ pc'[t] # pc[t]) =>
                    pc'[t] = "none"
          /\ (\A t \in Threads : pc[t] = "none") => UNCHANGED core]_vars

\* stop() has returned while a cycle was in flight, and that cycle, holding
\* the lock, is about to assign the position
C33_Witness ==
    \E t \in Threads :
        /\ ~is_running
        /\ pc[t] = "pose_upd"
        /\ lock = t
        /\ H[t] # NoH
        /\ H[t] # Identity

\* C34: every occupancy-grid cell holds 0 or 100 and never a value in
\* 1..99, so the renderer's test (value > 50) and the updater's test
\* (value >= 50) agree on every cell.
C34_CellsFreeOrOccupied ==
    \A y \in Cells : \A x \in Cells :
        /\ occupancy_grid[y][x] \in {0, 100}
        /\ (occupancy_grid[y][x] > 50) <=> (occupancy_grid[y][x] >= 50)

\* two grid updates at different positions have each left their cell
\* occupied, the second one keeping the first although it is a neighbour
C34_Witness ==
    \E y \in Cells : \E x1 \in Cells : \E x2 \in Cells :
        /\ x1 # x2
        /\ occupancy_grid[y][x1] = 100
        /\ occupancy_grid[y][x2] = 100
        /\ \E y0 \in Cells : occupancy_grid[y0][x1] = 0

\* C35: the grid index of a coordinate is centre + position / 0.1 truncated
\* toward zero; a coordinate whose untruncated value lies strictly between
\* -1 and 0 therefore gets index 0 and counts as in bounds; the update marks
\* the cell at the two indices when both lie in the grid, and changes
\* nothing exactly when one of them is below 0 or above the last index.
C35_IndexTruncatesTowardZero ==
    [][\A t \in Threads :
          LET ux == grid_center * 10 + position.x
              uy == grid_center * 10 + position.y
              ix == IF ux >= 0 THEN ux \div 10 ELSE -((-ux) \div 10)
              iy == IF uy >= 0 THEN uy \div 10 ELSE -((-uy) \div 10)
              inside == /\ 0 <= ix /\ ix <= grid_size - 1
                        /\ 0 <= iy /\ iy <= grid_size - 1
          IN  (pc[t] = "grid_upd" /\ pc'[t] # pc[t]) =>
                  /\ GridIndex(position.x) = ix
                  /\ GridIndex(position.y) = iy
                  /\ ux \in -9 .. -1 => ix = 0
                  /\ uy \in -9 .. -1 => iy = 0
                  /\ inside => occupancy_grid'[iy][ix] = 100
                  /\ ~inside <=> occupancy_grid' = occupancy_grid]_vars

\* a position half a cell beyond the low edge in x, on the centre row: the
\* update has marked column 0 of that row and freed nothing outside the grid
C35_Witness ==
    \E t \in Threads :
        /\ pc[t] = "imu"
        /\ "grid" \in written[t]
        /\ position.x = -(grid_center * 10) - 5
        /\ position.y = 0
        /\ occupancy_grid[grid_center][0] = 100
        /\ pre[t].occupancy_grid[grid_center][0] = 0

====
